---- MODULE Spec2Model ----
(***************************************************************************)
(* A model of src/src/main.py (aoe-discord-bot): the polling loop of       *)
(* Engine.run / Engine.check_results / Engine.get_lastmatches, the team    *)
(* assembler Engine.set_teams, and the classification and header code of   *)
(* MessageFormatter, with the record link resolver set_record_link.        *)
(*                                                                         *)
(* Text is modelled with TLA+ strings (\o is Python's +).  The embed's     *)
(* title, fields and insights link are read by no property below and are   *)
(* left out of the formatter record.                                       *)
(***************************************************************************)
EXTENDS Integers, Sequences, FiniteSets, TLC

VARIABLES
    pc,            \* Engine.run: "init", "sleep", "check", "returned", "raised"
    prev,          \* Engine.run's local prev: the baseline snapshot
    new,           \* Engine.run's local new: the snapshot fetched by this tick
    n,             \* check_results: position of the for loop in new
    sent,          \* webhook.send calls made since the last fetch, in order
    log,           \* the last line written by logging.*
    fetched,       \* history: how the last client call ended
    lastFetched,   \* history: the last snapshot get_lastmatches returned
    sameAsLast,    \* history: the last fetch returned what the one before did
    nticks,        \* history: ticks whose fetch succeeded, saturating
    visibleSince,  \* history: per match id, in the initial snapshot or notified,
                   \*          and in every snapshot fetched since
    everNotified,  \* history: the match ids handed to webhook.send so far
    members,       \* input of the function specifications: a Match's members
    players,       \* Engine.players / clan_players: the configured roster
    responses,     \* input: what requests.get answers for each member's URL
    result,        \* output of the function under check
    stage          \* "in" before the function is applied, "out" after

vars == <<pc, prev, new, n, sent, log, fetched, lastFetched, sameAsLast,
          nticks, visibleSince, everNotified, members, players, responses,
          result, stage>>

loopVars == <<pc, prev, new, n, sent, log, fetched, lastFetched, sameAsLast,
              nticks, visibleSince, everNotified>>

funVars == <<members, players, responses, result, stage>>

(***************************************************************************)
(* Bounds of the model.                                                    *)
(***************************************************************************)
MaxMatchId == 2     \* match ids are 1..MaxMatchId
MaxTicks == 2       \* nticks saturates here
MaxMembers == 3     \* members of a match in the function specifications
MaxTeamId == 1      \* team ids with a team are 0..MaxTeamId
NoTeamIds == 2      \* "no team" ids are -NoTeamIds..-1
MaxRoster == 2      \* players in the roster

TeamIds == (0 - NoTeamIds)..MaxTeamId

\* a profile takes part in a match once: a match of up to MaxMembers members
\* draws them from as many profiles
ProfileIds == 1..MaxMembers

\* the profiles a roster entry may name; the other profiles are in no roster
RosterIds == {1, 2}

(***************************************************************************)
(* Data: Member, ConfigPlayer, Match (from the aoe package), Team and      *)
(* TeamMatch.                                                              *)
(***************************************************************************)
AliasOf(pid) ==
    CASE pid = 1 -> "alice"
      [] pid = 2 -> "bOB"
      [] pid = 3 -> "Cy"
      [] OTHER   -> "d"

ReplayUrlOf(pid) ==
    CASE pid = 1 -> "https://r/1"
      [] pid = 2 -> "https://r/2"
      [] pid = 3 -> "https://r/3"
      [] OTHER   -> "https://r/n"

Member(pid, teamid, outcome, replay_link) ==
    [profile |-> [id |-> pid, alias |-> AliasOf(pid)],
     teamid |-> teamid, outcome |-> outcome, replay_link |-> replay_link]

ConfigPlayer(pid) == [profileId |-> pid]

Team(number, mbs) == [number |-> number, members |-> mbs]

TeamMatch(match, teams) == [match |-> match, teams |-> teams]

(***************************************************************************)
(* Engine.set_teams.                                                       *)
(***************************************************************************)
\* the inner for loop: the member joins every team with its non-negative id
JoinTeams(teams, member) ==
    [i \in 1..Len(teams) |->
        IF member.teamid > -1 /\ teams[i].number = member.teamid
        THEN [teams[i] EXCEPT !.members = Append(@, member)]
        ELSE teams[i]]

\* the flag found after the inner for loop
TeamFound(teams, member) ==
    \E i \in 1..Len(teams) :
        member.teamid > -1 /\ teams[i].number = member.teamid

\* a faulty variant: found is never set, so a member that joined a team also starts one
PlaceMemberFoundUnset(teams, member) ==
    Append(JoinTeams(teams, member), Team(member.teamid, <<member>>))

\* one iteration of the outer for loop
PlaceMember(teams, member) ==
    IF TeamFound(teams, member)
    THEN JoinTeams(teams, member)
    ELSE Append(teams, Team(member.teamid, <<member>>))

RECURSIVE PlaceAll(_, _)
PlaceAll(teams, mbs) ==
    IF mbs = <<>> THEN teams
    ELSE PlaceAll(PlaceMember(teams, Head(mbs)), Tail(mbs))

\* sorted() is stable: a team goes after the teams whose number is not larger
RECURSIVE InsertByNumber(_, _)
InsertByNumber(sortedTeams, team) ==
    IF sortedTeams = <<>> THEN <<team>>
    ELSE IF Head(sortedTeams).number <= team.number
         THEN <<Head(sortedTeams)>> \o InsertByNumber(Tail(sortedTeams), team)
         ELSE <<team>> \o sortedTeams

RECURSIVE SortFrom(_, _)
SortFrom(done, teams) ==
    IF teams = <<>> THEN done
    ELSE SortFrom(InsertByNumber(done, Head(teams)), Tail(teams))

\* a faulty variant: the teams are returned in the order they were started
sorted_teams_unsorted(teams) == teams

sorted_teams(teams) == SortFrom(<<>>, teams)

set_teams(mbs) == sorted_teams(PlaceAll(<<>>, mbs))

(***************************************************************************)
(* MessageFormatter: classification.                                       *)
(***************************************************************************)
\* the inner for loop of extract_clan_teammates: mb is appended once for
\* every roster entry that carries its profile id
RECURSIVE AppendPerPlayer(_, _, _)
AppendPerPlayer(teammates, mb, clan_players) ==
    IF clan_players = <<>> THEN teammates
    ELSE AppendPerPlayer(
            IF mb.profile.id = Head(clan_players).profileId
            THEN Append(teammates, mb) ELSE teammates,
            mb, Tail(clan_players))

RECURSIVE AppendTeammates(_, _, _)
AppendTeammates(teammates, mbs, clan_players) ==
    IF mbs = <<>> THEN teammates
    ELSE AppendTeammates(AppendPerPlayer(teammates, Head(mbs), clan_players),
                         Tail(mbs), clan_players)

extract_clan_teammates(match, clan_players) ==
    IF Len(match.teams) = 2
    THEN AppendTeammates(<<>>, match.match.members, clan_players)
    ELSE <<>>

is_training_game(teams, teammates, mbs) ==
    Len(teammates) = Len(mbs) \/ Len(teams) # 2

clan_is_winner(teammates, is_training) ==
    IF is_training THEN FALSE
    ELSE \E i \in 1..Len(teammates) : teammates[i].outcome > 0

set_color(is_training, is_victory) ==
    IF is_training THEN 7506394
    ELSE IF is_victory THEN 5089895
    ELSE 10961731

\* MessageFormatter.__init__, without the title and the two links
MessageFormatter(match, clan_players) ==
    LET teammates   == extract_clan_teammates(match, clan_players)
        is_training == is_training_game(match.teams, teammates, match.match.members)
        is_victory  == clan_is_winner(teammates, is_training)
    IN  [teammates   |-> teammates,
         is_training |-> is_training,
         is_victory  |-> is_victory,
         teams       |-> match.teams,
         color       |-> set_color(is_training, is_victory)]

(***************************************************************************)
(* MessageFormatter.generate_message.                                      *)
(***************************************************************************)
LowerLetters == "abcdeiloy"
UpperLetters == "ABCDEILOY"

CharAt(s, i) == SubSeq(s, i, i)

Upper(c) ==
    IF \E i \in 1..Len(LowerLetters) : CharAt(LowerLetters, i) = c
    THEN CharAt(UpperLetters,
                CHOOSE i \in 1..Len(LowerLetters) : CharAt(LowerLetters, i) = c)
    ELSE c

Lower(c) ==
    IF \E i \in 1..Len(UpperLetters) : CharAt(UpperLetters, i) = c
    THEN CharAt(LowerLetters,
                CHOOSE i \in 1..Len(UpperLetters) : CharAt(UpperLetters, i) = c)
    ELSE c

RECURSIVE LowerAll(_)
LowerAll(s) ==
    IF Len(s) = 0 THEN "" ELSE Lower(CharAt(s, 1)) \o LowerAll(Tail(s))

\* str.capitalize(): the first character upper case, the others lower case
capitalize(s) ==
    IF Len(s) = 0 THEN "" ELSE Upper(CharAt(s, 1)) \o LowerAll(Tail(s))

\* the separator written after teammate number k (from 0) of len
Separator(k, len) ==
    IF k < len - 2 THEN ", "
    ELSE IF k < len - 1 THEN " and "
    ELSE ""

\* the for loop of generate_message, from teammate number k on
RECURSIVE HeaderFrom(_, _, _)
HeaderFrom(header, teammates, k) ==
    IF k >= Len(teammates) THEN header
    ELSE HeaderFrom(header \o capitalize(teammates[k + 1].profile.alias)
                           \o Separator(k, Len(teammates)),
                    teammates, k + 1)

\* a faulty variant: the plural is used unless there is exactly one teammate
VerbPhraseUnlessOne(is_victory, len) ==
    IF is_victory
    THEN " " \o (IF len # 1 THEN "are" ELSE "is") \o " victorious."
    ELSE " " \o (IF len # 1 THEN "have" ELSE "has") \o " been defeated."

VerbPhrase(is_victory, len) ==
    IF is_victory
    THEN " " \o (IF len > 1 THEN "are" ELSE "is") \o " victorious."
    ELSE " " \o (IF len > 1 THEN "have" ELSE "has") \o " been defeated."

generate_message(self) ==
    IF self.is_training THEN "Match results."
    ELSE HeaderFrom("", self.teammates, 0)
            \o VerbPhrase(self.is_victory, Len(self.teammates))

(***************************************************************************)
(* MessageFormatter.set_record_link.  requests.get either raises a         *)
(* RequestException or returns a response with a status code; for an empty *)
(* URL it raises MissingSchema, a RequestException, before any traffic.    *)
(***************************************************************************)
NoLink == "None"

Raises == [exc |-> TRUE, status_code |-> 0]

Status(code) == [exc |-> FALSE, status_code |-> code]

requests_get(url, answer) == IF url = "" THEN Raises ELSE answer

\* a faulty variant: any 2xx status ends the search
ProbeSucceeds2xx(resp) ==
    ~resp.exc /\ resp.status_code >= 200 /\ resp.status_code <= 299

\* the body of the try block reaches the break
ProbeSucceeds(resp) == ~resp.exc /\ resp.status_code = 200

\* the for loop from member number i on; probes lists the members whose
\* URL was handed to requests.get
RECURSIVE ProbeFrom(_, _, _, _)
ProbeFrom(mbs, answers, i, probes) ==
    IF i > Len(mbs) THEN [link |-> "", probes |-> probes]
    ELSE IF ProbeSucceeds(requests_get(mbs[i].replay_link, answers[i]))
         THEN [link |-> mbs[i].replay_link, probes |-> Append(probes, i)]
         ELSE ProbeFrom(mbs, answers, i + 1, Append(probes, i))

set_insights_link(link) == "▸ **[Link to match insights](" \o link \o ")**"

\* generate_embed, lines 101-104: the value of the trailing links field
embed_links(insights_link, record_link) ==
    IF record_link # NoLink
    THEN insights_link \o "\n" \o record_link
    ELSE insights_link

set_record_link(mbs, answers) ==
    LET found == ProbeFrom(mbs, answers, 1, <<>>)
    IN  [record_link |-> IF found.link # ""
                         THEN "▸ **[Download replay](" \o found.link \o ")**"
                         ELSE NoLink,
         link   |-> found.link,
         probes |-> found.probes]

(***************************************************************************)
(* The polling loop: Engine.get_lastmatches, Engine.check_results and      *)
(* Engine.run.                                                             *)
(*                                                                         *)
(* The match-history client (aoe.WorldsEdgeApiClient) answers a fetch with *)
(* a list of matches, or reports a failure: by returning None or by        *)
(* raising.  A list it returns holds each match id at most once.  A match  *)
(* of the loop has one of two member lists, which differ in the outcomes.  *)
(***************************************************************************)
Outcomes == {0, 1}

LoopMatch(id, v) ==
    [id |-> id, members |-> <<Member(1, 0, v, ""), Member(2, 1, 1 - v, "")>>]

LoopMatches == {LoopMatch(id, v) : id \in 1..MaxMatchId, v \in Outcomes}

Snapshots ==
    {s \in UNION {[1..k -> LoopMatches] : k \in 0..MaxMatchId} :
        \A i, j \in 1..Len(s) : i # j => s[i].id # s[j].id}

ClientResults ==
    {[kind |-> "ok", matches |-> s] : s \in Snapshots}
        \cup {[kind |-> "none", matches |-> <<>>],
              [kind |-> "raise", matches |-> <<>>]}

LoopPlayers == <<ConfigPlayer(1)>>

\* Engine.get_lastmatches: it returns a list or leaves by an exception (the
\* client's, or the TypeError of iterating None); it never returns None
get_lastmatches(r) ==
    IF r.kind = "raise"
    THEN [raised |-> TRUE, isNone |-> FALSE, value |-> <<>>]
    ELSE IF r.kind = "none"
    THEN [raised |-> TRUE, isNone |-> FALSE, value |-> <<>>]
    ELSE [raised |-> FALSE, isNone |-> FALSE,
          value |-> [i \in 1..Len(r.matches) |->
                        TeamMatch(r.matches[i], set_teams(r.matches[i].members))]]

IdsOf(snapshot) == {snapshot[i].match.id : i \in 1..Len(snapshot)}

\* a faulty variant: a match is looked up by its whole data, not by its id
FoundByData(prv, nw) == SelectSeq(prv, LAMBDA p : p.match = nw.match)

\* check_results: found = [p for p in prev if p.match.id == n.match.id]
Found(prv, nw) == SelectSeq(prv, LAMBDA p : p.match.id = nw.match.id)

\* a faulty variant: the baseline is replaced only when a match was notified
NextBaselineIfSent(prv, nw, snt) == IF snt = <<>> THEN prv ELSE nw

\* run: prev = new
NextBaseline(prv, nw, snt) == nw

Bump(k) == IF k < MaxTicks THEN k + 1 ELSE k

LoopInit ==
    /\ pc = "init"
    /\ prev = <<>>
    /\ new = <<>>
    /\ n = 1
    /\ sent = <<>>
    /\ log = "starting AoE Engine..."
    /\ fetched = "-"
    /\ lastFetched = <<>>
    /\ sameAsLast = FALSE
    /\ nticks = 0
    /\ visibleSince = [id \in 1..MaxMatchId |-> FALSE]
    /\ everNotified = {}

\* run, lines 257-262: the initial fetch
Initialize ==
    /\ pc = "init"
    /\ \E r \in ClientResults :
        LET res == get_lastmatches(r) IN
        /\ fetched' = r.kind
        /\ IF res.raised
           THEN /\ pc' = "raised"
                /\ log' = "exception"
                /\ UNCHANGED <<prev, lastFetched, visibleSince>>
           ELSE IF res.isNone
           THEN /\ pc' = "returned"
                /\ log' = "could't initialize matches"
                /\ UNCHANGED <<prev, lastFetched, visibleSince>>
           ELSE /\ pc' = "sleep"
                /\ prev' = res.value
                /\ log' = "recent matches initialized"
                /\ lastFetched' = res.value
                /\ visibleSince' = [id \in 1..MaxMatchId |-> id \in IdsOf(res.value)]
    /\ UNCHANGED <<new, n, sent, sameAsLast, nticks, everNotified>>
    /\ UNCHANGED funVars

\* run, lines 264-268: the sleep and the fetch of a tick
Fetch ==
    /\ pc = "sleep"
    /\ \E r \in ClientResults :
        LET res == get_lastmatches(r) IN
        /\ fetched' = r.kind
        /\ IF res.raised
           THEN /\ pc' = "raised"
                /\ log' = "exception"
                /\ UNCHANGED <<new, n, sent, lastFetched, sameAsLast, nticks,
                               visibleSince>>
           ELSE IF res.isNone
           THEN /\ pc' = "sleep"
                /\ log' = "could't refresh matches"
                /\ UNCHANGED <<new, n, sent, lastFetched, sameAsLast, nticks,
                               visibleSince>>
           ELSE /\ pc' = "check"
                /\ new' = res.value
                /\ n' = 1
                /\ sent' = <<>>
                /\ log' = log
                /\ lastFetched' = res.value
                /\ sameAsLast' = (res.value = lastFetched)
                /\ nticks' = Bump(nticks)
                /\ visibleSince' = [id \in 1..MaxMatchId |->
                                       visibleSince[id] /\ id \in IdsOf(res.value)]
    /\ UNCHANGED <<prev, everNotified>>
    /\ UNCHANGED funVars

\* check_results, lines 276-283: one iteration of the for loop; webhook.send
\* returns (delivered) or raises, and nothing catches what it raises
CheckStep ==
    /\ pc = "check"
    /\ n <= Len(new)
    /\ IF Found(prev, new[n]) # <<>>
       THEN /\ n' = n + 1
            /\ UNCHANGED <<pc, sent, log, visibleSince, everNotified>>
       ELSE \E delivered \in BOOLEAN :
            LET formatter == MessageFormatter(new[n], players)
                message   == generate_message(formatter)
            IN  /\ sent' = Append(sent, [id        |-> new[n].match.id,
                                         at        |-> n,
                                         content   |-> message,
                                         delivered |-> delivered])
                /\ visibleSince' = [visibleSince EXCEPT ![new[n].match.id] = TRUE]
                /\ everNotified' = everNotified \cup {new[n].match.id}
                /\ IF delivered
                   THEN /\ n' = n + 1
                        /\ pc' = pc
                        /\ log' = "new finished match"
                   ELSE /\ n' = n
                        /\ pc' = "raised"
                        /\ log' = "exception"
    /\ UNCHANGED <<prev, new, fetched, lastFetched, sameAsLast, nticks>>
    /\ UNCHANGED funVars

\* run, lines 270-272: check_results has returned
Refresh ==
    /\ pc = "check"
    /\ n > Len(new)
    /\ prev' = NextBaseline(prev, new, sent)
    /\ pc' = "sleep"
    /\ log' = "matches refreshed"
    /\ UNCHANGED <<new, n, sent, fetched, lastFetched, sameAsLast, nticks,
                   visibleSince, everNotified>>
    /\ UNCHANGED funVars

Init ==
    /\ LoopInit
    /\ members = <<>>
    /\ players = LoopPlayers
    /\ responses = <<>>
    /\ result = "-"
    /\ stage = "loop"

Next == Initialize \/ Fetch \/ CheckStep \/ Refresh

Spec == Init /\ [][Next]_vars

(***************************************************************************)
(* The function specifications: the input is drawn by the initial state    *)
(* and one action applies the function.  The loop does not run in them.    *)
(***************************************************************************)
LoopOff ==
    /\ pc = "off"
    /\ prev = <<>>
    /\ new = <<>>
    /\ n = 1
    /\ sent = <<>>
    /\ log = ""
    /\ fetched = "-"
    /\ lastFetched = <<>>
    /\ sameAsLast = FALSE
    /\ nticks = 0
    /\ visibleSince = [id \in 1..MaxMatchId |-> FALSE]
    /\ everNotified = {}

\* member lists for set_teams: member i has profile i and any team id
TeamInputs ==
    UNION {{[i \in 1..k |-> Member(i, t[i], 0, "")] : t \in [1..k -> TeamIds]} :
              k \in 0..MaxMembers}

InitTeams ==
    /\ LoopOff
    /\ members \in TeamInputs
    /\ players = <<>>
    /\ responses = <<>>
    /\ result = <<>>
    /\ stage = "in"

ApplySetTeams ==
    /\ stage = "in"
    /\ result' = set_teams(members)
    /\ stage' = "out"
    /\ UNCHANGED <<members, players, responses>>
    /\ UNCHANGED loopVars

NextTeams == ApplySetTeams

SpecTeams == InitTeams /\ [][NextTeams]_vars

\* member lists for the formatter: distinct profiles, no team or one of two
\* teams, lost or won
FmtTeamIds == {-1, 0, 1}

FmtMembers ==
    {Member(p, t, o, "") : p \in ProfileIds, t \in FmtTeamIds, o \in Outcomes}

FmtInputs ==
    {s \in UNION {[1..k -> FmtMembers] : k \in 0..MaxMembers} :
        \A i, j \in 1..Len(s) : i # j => s[i].profile.id # s[j].profile.id}

\* rosters as main() loads them: any list of players, repeated ids included
Rosters ==
    UNION {{[i \in 1..k |-> ConfigPlayer(r[i])] : r \in [1..k -> RosterIds]} :
              k \in 0..MaxRoster}

InitFormatter ==
    /\ LoopOff
    /\ members \in FmtInputs
    /\ players \in Rosters
    /\ responses = <<>>
    /\ result = [teams |-> <<>>, formatter |-> "-", message |-> "-"]
    /\ stage = "in"

\* get_lastmatches builds the TeamMatch, check_results the formatter and
\* the header
ApplyFormatter ==
    /\ stage = "in"
    /\ LET match     == TeamMatch([id |-> 1, members |-> members], set_teams(members))
           formatter == MessageFormatter(match, players)
       IN  result' = [teams     |-> match.teams,
                      formatter |-> formatter,
                      message   |-> generate_message(formatter)]
    /\ stage' = "out"
    /\ UNCHANGED <<members, players, responses>>
    /\ UNCHANGED loopVars

NextFormatter == ApplyFormatter

SpecFormatter == InitFormatter /\ [][NextFormatter]_vars

\* member lists for set_record_link: member i has no replay URL or its own
LinkInputs ==
    UNION {{[i \in 1..k |-> Member(i, 0, 0, IF has[i] THEN ReplayUrlOf(i) ELSE "")] :
                has \in [1..k -> BOOLEAN]} : k \in 0..MaxMembers}

InsightsUrl == "https://i/1"

Answers == {Raises, Status(200), Status(204), Status(404)}

InitLink ==
    /\ LoopOff
    /\ members \in LinkInputs
    /\ players = <<>>
    /\ responses \in [1..Len(members) -> Answers]
    /\ result = [record_link |-> NoLink, link |-> "", probes |-> <<>>, links |-> ""]
    /\ stage = "in"

\* __init__ resolves the record link, generate_embed writes the links field
ApplySetRecordLink ==
    /\ stage = "in"
    /\ LET found == set_record_link(members, responses)
       IN  result' = [record_link |-> found.record_link,
                      link        |-> found.link,
                      probes      |-> found.probes,
                      links       |-> embed_links(set_insights_link(InsightsUrl),
                                                  found.record_link)]
    /\ stage' = "out"
    /\ UNCHANGED <<members, players, responses>>
    /\ UNCHANGED loopVars

NextLink == ApplySetRecordLink

SpecLink == InitLink /\ [][NextLink]_vars

(***************************************************************************)
(* Properties of the polling loop (specification Spec).                    *)
(***************************************************************************)
FailureKinds == {"none", "raise"}

\* the entries of nw whose match id is not in prv, in the order of nw
NewEntries(prv, nw) == SelectSeq(nw, LAMBDA m : m.match.id \notin IdsOf(prv))

\* the tick's check_results is over: it returned, or webhook.send raised
DispatchRaised == pc = "raised" /\ fetched = "ok" /\ nticks > 0

TickOver == (pc = "check" /\ n > Len(new)) \/ DispatchRaised

\* C1: a tick of the running loop whose fetch fails dispatches nothing, keeps
\* the baseline and leaves the loop waiting for its next tick.
C1_FailedFetchKeepsLoop ==
    [][(pc = "sleep" /\ fetched' \in FailureKinds)
          => (pc' = "sleep" /\ prev' = prev /\ sent' = sent)]_vars

\* C2: when the dispatch of one new match fails, a dispatch is still attempted
\* in the same tick for every new match that comes after it in the snapshot.
C2_DispatchFailureIsolated ==
    TickOver =>
        \A i, j \in 1..Len(new) :
            (/\ i < j
             /\ Found(prev, new[j]) = <<>>
             /\ \E k \in 1..Len(sent) : sent[k].at = i /\ ~sent[k].delivered)
                => \E k \in 1..Len(sent) : sent[k].at = j

\* C3: a tick whose fetch succeeded dispatches exactly the entries of the new
\* snapshot whose match id is absent from the baseline, in snapshot order,
\* and none whose id is in the baseline, whatever its other data.
C3_ExactlyNewEntries ==
    TickOver =>
        [k \in 1..Len(sent) |-> sent[k].id]
            = [k \in 1..Len(NewEntries(prev, new)) |->
                  NewEntries(prev, new)[k].match.id]

\* C4: between ticks the baseline is the snapshot of the last successful
\* fetch, notified matches or not, and a fetch that returns the snapshot of
\* the fetch before it leads to no dispatch.
C4_BaselineReplaced ==
    /\ pc = "sleep" => prev = lastFetched
    /\ sameAsLast => sent = <<>>

\* two ticks in a row fetched the same non-empty snapshot; the second is over
C4_Witness ==
    /\ pc = "sleep"
    /\ nticks >= 2
    /\ sameAsLast
    /\ new # <<>>
    /\ prev = new
    /\ sent = <<>>

\* C10: nothing is dispatched before the first tick, and a match id is
\* dispatched only if it was not in the initial snapshot or dispatched before,
\* or has been missing from a snapshot fetched since.
C10_NotifiedOncePerAppearance ==
    /\ [](nticks = 0 => sent = <<>>)
    /\ [][Len(sent') > Len(sent) => ~visibleSince[sent'[Len(sent')].id]]_vars

\* match 1 was dispatched in an earlier tick, a later tick fetched it again
\* and dispatched nothing
C10_Witness ==
    /\ pc = "sleep"
    /\ nticks >= 2
    /\ 1 \in everNotified
    /\ visibleSince[1]
    /\ 1 \in IdsOf(prev)
    /\ sent = <<>>

(***************************************************************************)
(* Properties of set_teams (specification SpecTeams).                      *)
(***************************************************************************)
\* how often mb is a member of one of teams
Occurrences(teams, mb) ==
    Cardinality({tk \in (1..Len(teams)) \X (1..MaxMembers + 1) :
                    /\ tk[2] <= Len(teams[tk[1]].members)
                    /\ teams[tk[1]].members[tk[2]] = mb})

\* C5: every input member is in the returned teams exactly once, and two
\* members with the same non-negative team id are in the same team.
C5_MembersPartitioned ==
    stage = "out" =>
        /\ \A i \in 1..Len(members) : Occurrences(result, members[i]) = 1
        /\ \A t \in 1..Len(result) : \A k \in 1..Len(result[t].members) :
              \E i \in 1..Len(members) : result[t].members[k] = members[i]
        /\ \A i, j \in 1..Len(members) :
              (members[i].teamid >= 0 /\ members[i].teamid = members[j].teamid)
                 => \E t \in 1..Len(result) :
                       /\ \E k \in 1..Len(result[t].members) :
                             result[t].members[k] = members[i]
                       /\ \E k \in 1..Len(result[t].members) :
                             result[t].members[k] = members[j]

\* two members of team 0, listed around a member without a team
C5_Witness ==
    /\ stage = "out"
    /\ Len(members) = 3
    /\ members[1].teamid = 0
    /\ members[2].teamid = -1
    /\ members[3].teamid = 0
    /\ Len(result) = 2

\* C6 as claimed: the returned teams are strictly ascending by team number.
C6_StrictlyAscending ==
    stage = "out" =>
        \A t \in 1..Len(result) - 1 : result[t].number < result[t + 1].number

\* C6: the returned teams are ascending by team number; two teams have the
\* same number only if it is negative, and a team with a negative number has
\* one member.
C6_AscendingUniqueFromZero ==
    stage = "out" =>
        /\ \A t \in 1..Len(result) - 1 :
              \/ result[t].number < result[t + 1].number
              \/ /\ result[t].number = result[t + 1].number
                 /\ result[t].number < 0
        /\ \A t \in 1..Len(result) :
              result[t].number < 0 => Len(result[t].members) = 1

\* two members without a team listed after a member of team 0
C6_Witness ==
    /\ stage = "out"
    /\ Len(members) = 3
    /\ members[1].teamid = 0
    /\ members[2].teamid = -1
    /\ members[3].teamid = -1
    /\ Len(result) = 3
    /\ result[1].number = -1
    /\ result[2].number = -1
    /\ result[3].number = 0

(***************************************************************************)
(* Properties of the formatter (specification SpecFormatter).              *)
(***************************************************************************)
InRoster(mb) == \E k \in 1..Len(players) : players[k].profileId = mb.profile.id

\* C7: is_training is true iff the match does not have exactly two teams or
\* every member's profile id is in the roster, whatever ids the roster lists.
C7_TrainingIffAllRoster ==
    stage = "out" =>
        (result.formatter.is_training
            <=> (\/ Len(result.teams) # 2
                 \/ \A i \in 1..Len(members) : InRoster(members[i])))

\* the verb phrase with the singular for exactly one teammate
VerbSingularIffOne(is_victory, len) ==
    IF is_victory
    THEN IF len = 1 THEN " is victorious." ELSE " are victorious."
    ELSE IF len = 1 THEN " has been defeated." ELSE " have been defeated."

\* the verb phrase with the singular for at most one teammate
VerbSingularUpToOne(is_victory, len) ==
    IF is_victory
    THEN IF len <= 1 THEN " is victorious." ELSE " are victorious."
    ELSE IF len <= 1 THEN " has been defeated." ELSE " have been defeated."

\* C8 as claimed: "Match results." for a training match; otherwise the
\* capitalized aliases and a verb phrase, victorious iff is_victory, singular
\* iff there is exactly one teammate.
C8_SingularIffOne ==
    stage = "out" =>
        LET f == result.formatter IN
        result.message =
            IF f.is_training THEN "Match results."
            ELSE HeaderFrom("", f.teammates, 0)
                    \o VerbSingularIffOne(f.is_victory, Len(f.teammates))

\* C8: the same, with the singular iff there is at most one teammate.
C8_SingularUpToOne ==
    stage = "out" =>
        LET f == result.formatter IN
        result.message =
            IF f.is_training THEN "Match results."
            ELSE HeaderFrom("", f.teammates, 0)
                    \o VerbSingularUpToOne(f.is_victory, Len(f.teammates))

\* a match of two teams none of whose members is in the roster
C8_Witness ==
    /\ stage = "out"
    /\ Len(result.teams) = 2
    /\ ~result.formatter.is_training
    /\ result.formatter.teammates = <<>>
    /\ result.message = " has been defeated."

(***************************************************************************)
(* Properties of set_record_link (specification SpecLink).                 *)
(***************************************************************************)
Candidate(i) == members[i].replay_link # ""

Reachable2xx(i) ==
    /\ Candidate(i)
    /\ ~responses[i].exc
    /\ responses[i].status_code >= 200
    /\ responses[i].status_code <= 299

Answers200(i) ==
    /\ Candidate(i)
    /\ ~responses[i].exc
    /\ responses[i].status_code = 200

FirstOf(S) == CHOOSE i \in S : \A j \in S : i <= j

\* C9 as claimed: only members with a replay URL are probed, in member order;
\* the first one that answers with a 2xx status is returned and none after it
\* is probed; without one there is no link.
C9_FirstReachable2xx ==
    stage = "out" =>
        LET good == {i \in 1..Len(members) : Reachable2xx(i)} IN
        /\ \A k \in 1..Len(result.probes) : Candidate(result.probes[k])
        /\ \A k \in 1..Len(result.probes) - 1 :
              result.probes[k] < result.probes[k + 1]
        /\ IF good # {}
           THEN /\ result.link = members[FirstOf(good)].replay_link
                /\ \A k \in 1..Len(result.probes) : result.probes[k] <= FirstOf(good)
           ELSE /\ result.record_link = NoLink
                /\ result.links = set_insights_link(InsightsUrl)

\* C9: every member's URL, empty or not, is handed to the probe in member
\* order up to the first member whose URL is not empty and answers with
\* status 200; that URL is returned and no later member is probed; without
\* such a member all are probed, there is no link, and the embed is built
\* with the insights link alone.
C9_FirstStatus200 ==
    stage = "out" =>
        LET good == {i \in 1..Len(members) : Answers200(i)}
            last == IF good # {} THEN FirstOf(good) ELSE Len(members)
        IN
        /\ result.probes = [k \in 1..last |-> k]
        /\ IF good # {}
           THEN /\ result.link = members[FirstOf(good)].replay_link
                /\ result.record_link # NoLink
           ELSE /\ result.record_link = NoLink
                /\ result.links = set_insights_link(InsightsUrl)

\* no URL, then a URL that answers 204, then one that answers 200
C9_Witness ==
    /\ stage = "out"
    /\ Len(members) = 3
    /\ ~Candidate(1)
    /\ Candidate(2) /\ responses[2] = Status(204)
    /\ Candidate(3) /\ responses[3] = Status(200)
    /\ result.link = members[3].replay_link
    /\ result.probes = <<1, 2, 3>>

====
